---- MODULE Spec2Model ----
(***************************************************************************)
(* Model of ngi_pipeline/engines/sarek/local_process_tracking.py:          *)
(* the reconciliation pass update_charon_with_local_jobs_status, the       *)
(* status probe get_analysis_status, the removal gate remove_analysis and  *)
(* the project reconstruction _project_from_fastq_file_paths.              *)
(*                                                                         *)
(* Strings are sequences of tokens: the token "/" is the path separator    *)
(* and every other token is a run of non-separator characters.             *)
(***************************************************************************)
EXTENDS Integers, Sequences, FiniteSets, TLC

VARIABLES
    \* ---- reconciliation pass (update_charon_with_local_jobs_status) ----
    tracked,          \* attributes of every analysis the tracking database was given
    store,            \* analyses currently held by the tracking database
    pass,             \* number of passes started so far
    pc,               \* position inside the pass
    todo,             \* analyses of tracked_analyses() not yet finished, current one first
    process_status,   \* local variable process_status of the current iteration
    restrict_to_seqruns, \* local variable restrict_to_seqruns of the current iteration
    probeCalls,       \* per analysis: calls of get_type_from_processid_and_exit_code_path in this pass
    probed,           \* per analysis: status returned by the probe in this pass
    publishCalls,     \* per analysis: calls of set_sample_analysis_status in this pass
    publishResult,    \* per analysis: how the publish call of this pass ended
    removeCalls,      \* per analysis: number of tracking_connector.remove_analysis calls in this pass
    error,            \* exception that left the pass, with the place that raised it
    prev,             \* what the previous pass did
    \* ---- project reconstruction (_project_from_fastq_file_paths) ----
    paths,            \* the fastq paths handed to the reconstruction, by their parts
    perm,             \* a permutation of paths
    project_obj,      \* result for paths
    perm_obj,         \* result for perm
    rpc               \* position of the reconstruction run

wvars == <<tracked, store, pass, pc, todo, process_status, restrict_to_seqruns,
           probeCalls, probed, publishCalls, publishResult, removeCalls, error, prev>>
rvars == <<paths, perm, project_obj, perm_obj, rpc>>
vars == <<wvars, rvars>>

\* ---------------------------------------------------------------- bounds
NumAnalyses == 2
MaxPasses == 2
MaxPaths == 3

\* ---------------------------------------------------------------- strings
Slash == "/"

Max(S) == CHOOSE m \in S : \A n \in S : n <= m

\* p.rfind('/') + 1
RFindEnd(p) == Max({0} \cup {i \in 1..Len(p) : p[i] = Slash})

AllSlashes(h) == \A i \in 1..Len(h) : h[i] = Slash

RECURSIVE RStripSlash(_)
RStripSlash(h) ==
    IF h # << >> /\ h[Len(h)] = Slash
    THEN RStripSlash(SubSeq(h, 1, Len(h) - 1))
    ELSE h

\* os.path.split: <<head, tail>>, the head without its trailing separators
\* unless it consists of separators only
split(p) ==
    LET i == RFindEnd(p)
        head == SubSeq(p, 1, i)
        tail == SubSeq(p, i + 1, Len(p))
    IN  << IF head # << >> /\ ~AllSlashes(head) THEN RStripSlash(head) ELSE head, tail >>

\* os.path.dirname
dirname(p) == split(p)[1]

\* ---------------------------------------------------------------- hierarchy
EmptyMap == [k \in {} |-> 0]

\* the value None of a project object
NoProject == [none |-> TRUE, name |-> << >>, base_path |-> << >>, samples |-> EmptyMap]

\* NGIProject(name, dirname, project_id, base_path): a project without samples
NGIProject(name, base_path) ==
    [none |-> FALSE, name |-> name, base_path |-> base_path, samples |-> EmptyMap]

\* dict lookup-or-create followed by an update of the entry
Put(m, k, v) == [x \in (DOMAIN m) \cup {k} |-> IF x = k THEN v ELSE m[x]]
GetOr(m, k, d) == IF k \in DOMAIN m THEN m[k] ELSE d

\* add_sample, add_libprep, add_seqrun, add_fastq_files for one parsed path:
\* every level is created when its name is new and reused otherwise, the
\* file name is appended to the seqrun's list
AddFastq(proj, sample_name, libprep_name, seqrun_name, fastq_file_name) ==
    LET sample_obj == GetOr(proj.samples, sample_name, EmptyMap)
        libprep_obj == GetOr(sample_obj, libprep_name, EmptyMap)
        seqrun_obj == GetOr(libprep_obj, seqrun_name, << >>)
    IN  [proj EXCEPT !.samples =
            Put(proj.samples, sample_name,
                Put(sample_obj, libprep_name,
                    Put(libprep_obj, seqrun_name, Append(seqrun_obj, fastq_file_name))))]

\* the five os.path.split calls and the os.path.dirname call of the loop body
ParsePath_keeps_data_dir(fastq_file_path) ==
    LET s1 == split(fastq_file_path)
        s2 == split(s1[1])
        s3 == split(s2[1])
        s4 == split(s3[1])
        s5 == split(s4[1])
    IN  [fastq_file_name |-> s1[2], seqrun_name |-> s2[2], libprep_name |-> s3[2],
         sample_name |-> s4[2], project_name |-> s5[2],
         project_base_path |-> s5[1]]

ParsePath(fastq_file_path) ==
    LET s1 == split(fastq_file_path)
        s2 == split(s1[1])
        s3 == split(s2[1])
        s4 == split(s3[1])
        s5 == split(s4[1])
    IN  [fastq_file_name |-> s1[2], seqrun_name |-> s2[2], libprep_name |-> s3[2],
         sample_name |-> s4[2], project_name |-> s5[2],
         project_base_path |-> dirname(s5[1])]

\* one iteration of the loop: project_obj = project_obj or NGIProject(...),
\* then the four add_* calls
LoopBody(obj, fastq_file_path) ==
    LET p == ParsePath(fastq_file_path)
        proj == IF obj.none THEN NGIProject(p.project_name, p.project_base_path) ELSE obj
    IN  AddFastq(proj, p.sample_name, p.libprep_name, p.seqrun_name, p.fastq_file_name)

RECURSIVE ReconstructFrom(_, _)
ReconstructFrom(obj, fastq_file_paths) ==
    IF fastq_file_paths = << >>
    THEN obj
    ELSE ReconstructFrom(LoopBody(obj, Head(fastq_file_paths)), Tail(fastq_file_paths))

\* the project object rebound on every iteration instead of kept
Reconstruct_rebinds_project(fastq_file_paths) ==
    IF fastq_file_paths = << >>
    THEN NoProject
    ELSE LoopBody(NoProject, fastq_file_paths[Len(fastq_file_paths)])

_project_from_fastq_file_paths(fastq_file_paths) ==
    ReconstructFrom(NoProject, fastq_file_paths)

\* ---------------------------------------------------------------- paths
\* a fastq path by its parts: the directory that holds the project directory
\* (dir, a path string, empty for a relative path without directory) and the
\* five names below it
PathStr(c) ==
    LET rest == << c.proj, Slash, c.samp, Slash, c.lib, Slash, c.run, Slash, c.file >>
    IN  IF c.dir = << >> THEN rest
        ELSE IF c.dir = << Slash >> THEN c.dir \o rest
        ELSE c.dir \o << Slash >> \o rest

Strs(cs) == [i \in 1..Len(cs) |-> PathStr(cs[i])]

Parts(dir, proj, samp, lib, run, file) ==
    [dir |-> dir, proj |-> proj, samp |-> samp, lib |-> lib, run |-> run, file |-> file]

BaseData == << Slash, "base", Slash, "DATA" >>

PathPool ==
    { Parts(BaseData, "P1", "S1", "L1", "R1", "f1"),
      Parts(BaseData, "P1", "S1", "L1", "R1", "f2"),
      Parts(BaseData, "P1", "S1", "L2", "R1", "f1"),
      Parts(BaseData, "P1", "S2", "L1", "R1", "f1"),
      Parts(BaseData, "P2", "S1", "L1", "R1", "f1"),
      Parts(<< Slash, "base" >>, "P1", "S2", "L2", "R2", "f1"),
      Parts(<< Slash >>, "P1", "S1", "L1", "R1", "f1"),
      Parts(<< "rel", Slash, "DATA" >>, "P1", "S1", "L2", "R2", "f2"),
      Parts(<< >>, "P1", "S2", "L1", "R2", "f2") }

\* ---------------------------------------------------------------- reconstruction runs
PathSeqs == UNION { [1..n -> PathPool] : n \in 0..MaxPaths }

Permuted(s, f) == [i \in 1..Len(s) |-> s[f[i]]]

Bijections(n) == { f \in [1..n -> 1..n] : \A i, j \in 1..n : f[i] = f[j] => i = j }


\* ---------------------------------------------------------------- analyses
Analyses == 1..NumAnalyses

\* the value None of process_id and slurm_job_id
NoneId == -1

ProcessRunning == "ProcessRunning"
ProcessExitStatusSuccessful == "ProcessExitStatusSuccessful"
ProcessExitStatusFailed == "ProcessExitStatusFailed"
Statuses == {ProcessRunning, ProcessExitStatusSuccessful, ProcessExitStatusFailed}

\* what the TSV file of an analysis of sample s lists
OtherSample(s) == IF s = "S1" THEN "S2" ELSE "S1"
TsvEmpty == << >>
TsvOwn(s) ==
    << Parts(BaseData, "P1", s, "L1", "R1", "f1"),
       Parts(BaseData, "P1", s, "L1", "R2", "f1"),
       Parts(BaseData, "P1", s, "L2", "R1", "f1") >>
TsvMixed(s) ==
    << Parts(BaseData, "P1", OtherSample(s), "L2", "R2", "f1"),
       Parts(BaseData, "P1", s, "L1", "R1", "f1"),
       Parts(BaseData, "P1", OtherSample(s), "L1", "R2", "f2") >>
TsvOther(s) == << Parts(BaseData, "P1", OtherSample(s), "L1", "R1", "f1") >>

Analysis(sample, process_id, slurm_job_id, fastq) ==
    [project_id |-> << "P1" >>, sample_id |-> << sample >>,
     project_base_path |-> << Slash, "base" >>,
     process_id |-> process_id, slurm_job_id |-> slurm_job_id, fastq |-> fastq]

\* the rows the tracking database can hold for analysis a: exactly one of
\* process_id and slurm_job_id is set
SampleOf(a) == IF a % 2 = 1 THEN "S1" ELSE "S2"
Rows(a) ==
    LET s == SampleOf(a)
    IN  { Analysis(s, 0, NoneId, TsvOwn(s)),
          Analysis(s, 1, NoneId, TsvMixed(s)),
          Analysis(s, NoneId, 0, TsvOwn(s)),
          Analysis(s, NoneId, 1, TsvOther(s)),
          Analysis(s, 1, NoneId, TsvEmpty) }

\* ---------------------------------------------------------------- get_analysis_status
\* Python's x or y on identifiers: x unless x is None or 0
PyOr(x, y) == IF x # NoneId /\ x # 0 THEN x ELSE y

\* the call get_analysis_status makes: the class it probes with and the
\* identifier it passes
get_analysis_status(analysis) ==
    [status_type |-> IF analysis.process_id # NoneId THEN "ProcessStatus" ELSE "JobStatus",
     processid_or_jobid |-> PyOr(analysis.process_id, analysis.slurm_job_id)]

\* ---------------------------------------------------------------- remove_analysis
remove_always(status, force) == TRUE
remove_only_running(status, force) == status = ProcessRunning \/ force

\* TRUE iff remove_analysis goes on to tracking_connector.remove_analysis
remove_analysis(status, force) == ~(status = ProcessRunning /\ ~force)

\* ---------------------------------------------------------------- sample lookup and scopes
NoError == [kind |-> "none", site |-> "none"]
Raised(kind, site) == [kind |-> kind, site |-> site]

\* restrict_to_seqruns of a sample object: libprep name -> seqrun names
SeqrunsOf(sample_obj) == [l \in DOMAIN sample_obj |-> DOMAIN sample_obj[l]]

\* scope over the libpreps of every sample of the project
AllLibpreps(proj) == UNION { DOMAIN proj.samples[s] : s \in DOMAIN proj.samples }
SeqrunsOfAll(proj) ==
    [l \in AllLibpreps(proj) |->
        UNION { DOMAIN proj.samples[s][l] : s \in { t \in DOMAIN proj.samples : l \in DOMAIN proj.samples[t] } }]

SampleLookup_empty_scope(proj, sample_id) ==
    IF proj.none
    THEN [error |-> Raised("TypeError", "update_charon_with_local_jobs_status"), scope |-> EmptyMap]
    ELSE IF sample_id \notin DOMAIN proj.samples
    THEN [error |-> NoError, scope |-> EmptyMap]
    ELSE [error |-> NoError, scope |-> SeqrunsOf(proj.samples[sample_id])]

SampleLookup_all_samples(proj, sample_id) ==
    IF proj.none
    THEN [error |-> Raised("TypeError", "update_charon_with_local_jobs_status"), scope |-> EmptyMap]
    ELSE IF sample_id \notin DOMAIN proj.samples
    THEN [error |-> Raised("IndexError", "update_charon_with_local_jobs_status"), scope |-> EmptyMap]
    ELSE [error |-> NoError, scope |-> SeqrunsOfAll(proj)]

\* list(filter(lambda x: x.name == sample_id, project_obj)).pop() and the
\* loop that fills restrict_to_seqruns: iterating None raises TypeError,
\* pop() of an empty list raises IndexError
SampleLookup(proj, sample_id) ==
    IF proj.none
    THEN [error |-> Raised("TypeError", "update_charon_with_local_jobs_status"), scope |-> EmptyMap]
    ELSE IF sample_id \notin DOMAIN proj.samples
    THEN [error |-> Raised("IndexError", "update_charon_with_local_jobs_status"), scope |-> EmptyMap]
    ELSE [error |-> NoError, scope |-> SeqrunsOf(proj.samples[sample_id])]

\* fastq_files_from_tsv_file followed by _project_from_fastq_file_paths
project_from_analysis(analysis) == _project_from_fastq_file_paths(Strs(analysis.fastq))

\* charon_connector.analysis_status_from_process_status
analysis_status_from_process_status(status) ==
    CASE status = ProcessRunning -> "UNDER_ANALYSIS"
      [] status = ProcessExitStatusSuccessful -> "ANALYZED"
      [] OTHER -> "FAILED"

\* ---------------------------------------------------------------- the pass
RECURSIVE Ascending(_)
Ascending(S) ==
    IF S = {} THEN << >>
    ELSE LET m == CHOOSE x \in S : \A y \in S : x <= y
         IN  << m >> \o Ascending(S \ {m})

NoCalls == [a \in Analyses |-> << >>]
NotProbed == [a \in Analyses |-> "none"]
NoPrev == [clean |-> FALSE, probed |-> NotProbed, calls |-> NoCalls]

\* the pass returned and no call to Charon failed in it
Clean == pc = "returned" /\ pass >= 1 /\ \A a \in Analyses : publishResult[a] # "failed"

RIdle ==
    /\ paths = << >> /\ perm = << >>
    /\ project_obj = NoProject /\ perm_obj = NoProject
    /\ rpc = "idle"

Init ==
    /\ tracked \in [Analyses -> UNION { Rows(a) : a \in Analyses }]
    /\ \A a \in Analyses : tracked[a] \in Rows(a)
    /\ store = Analyses
    /\ pass = 0
    /\ pc = "returned"
    /\ todo = << >>
    /\ process_status = "none"
    /\ restrict_to_seqruns = EmptyMap
    /\ probeCalls = NoCalls
    /\ probed = NotProbed
    /\ publishCalls = NoCalls
    /\ publishResult = NotProbed
    /\ removeCalls = [a \in Analyses |-> 0]
    /\ error = NoError
    /\ prev = NoPrev
    /\ RIdle

\* update_charon_with_local_jobs_status is called: tracked_analyses() lists
\* the rows of the tracking database
BeginPass ==
    /\ pc \in {"returned", "raised"}
    /\ pass < MaxPasses
    /\ pass' = pass + 1
    /\ todo' = Ascending(store)
    /\ pc' = IF store = {} THEN "returned" ELSE "status"
    /\ prev' = IF Clean THEN [clean |-> TRUE, probed |-> probed, calls |-> publishCalls]
                        ELSE NoPrev
    /\ process_status' = "none"
    /\ restrict_to_seqruns' = EmptyMap
    /\ probeCalls' = NoCalls
    /\ probed' = NotProbed
    /\ publishCalls' = NoCalls
    /\ publishResult' = NotProbed
    /\ removeCalls' = [a \in Analyses |-> 0]
    /\ error' = NoError
    /\ UNCHANGED <<tracked, store, rvars>>

\* process_status = get_analysis_status(analysis), the probe returns
ProbeReturns ==
    /\ pc = "status"
    /\ LET a == Head(todo) IN
       \E status \in Statuses :
          /\ probeCalls' = [probeCalls EXCEPT ![a] = Append(@, get_analysis_status(tracked[a]))]
          /\ probed' = [probed EXCEPT ![a] = status]
          /\ process_status' = status
    /\ pc' = "rebuild"
    /\ UNCHANGED <<tracked, store, pass, todo, restrict_to_seqruns, publishCalls,
                   publishResult, removeCalls, error, prev, rvars>>

\* the probe raises: nothing in the loop catches it
ProbeRaises ==
    /\ pc = "status"
    /\ LET a == Head(todo) IN
          probeCalls' = [probeCalls EXCEPT ![a] = Append(@, get_analysis_status(tracked[a]))]
    /\ error' = Raised("ProbeError", "get_analysis_status")
    /\ pc' = "raised"
    /\ UNCHANGED <<tracked, store, pass, todo, process_status, restrict_to_seqruns, probed,
                   publishCalls, publishResult, removeCalls, prev, rvars>>

\* project_from_analysis, the sample lookup and the scopes
Rebuild ==
    /\ pc = "rebuild"
    /\ LET a == Head(todo)
           found == SampleLookup(project_from_analysis(tracked[a]), tracked[a].sample_id)
       IN  /\ error' = found.error
           /\ restrict_to_seqruns' = found.scope
           /\ pc' = IF found.error = NoError THEN "publish" ELSE "raised"
    /\ UNCHANGED <<tracked, store, pass, todo, process_status, probeCalls, probed,
                   publishCalls, publishResult, removeCalls, prev, rvars>>

PublishCall(analysis, status, scope) ==
    [project_id |-> analysis.project_id,
     sample_id |-> analysis.sample_id,
     status |-> analysis_status_from_process_status(status),
     recurse |-> TRUE,
     restrict_to_libpreps |-> DOMAIN scope,
     restrict_to_seqruns |-> scope]

\* what a call of charon_connector.set_sample_analysis_status that does not
\* raise reports: success or failure
PublishResults == {"ok", "failed"}

\* charon_connector.set_sample_analysis_status returns; its return value,
\* a success or a failure, is discarded
PublishReturns ==
    /\ pc = "publish"
    /\ LET a == Head(todo) IN
       \E result \in PublishResults :
          /\ publishCalls' = [publishCalls EXCEPT
                                ![a] = Append(@, PublishCall(tracked[a], process_status, restrict_to_seqruns))]
          /\ publishResult' = [publishResult EXCEPT ![a] = result]
    /\ pc' = "remove"
    /\ UNCHANGED <<tracked, store, pass, todo, process_status, restrict_to_seqruns,
                   probeCalls, probed, removeCalls, error, prev, rvars>>

\* charon_connector.set_sample_analysis_status raises
PublishRaises ==
    /\ pc = "publish"
    /\ LET a == Head(todo) IN
          /\ publishCalls' = [publishCalls EXCEPT
                                ![a] = Append(@, PublishCall(tracked[a], process_status, restrict_to_seqruns))]
          /\ publishResult' = [publishResult EXCEPT ![a] = "raised"]
    /\ error' = Raised("CharonError", "set_sample_analysis_status")
    /\ pc' = "raised"
    /\ UNCHANGED <<tracked, store, pass, todo, process_status, restrict_to_seqruns,
                   probeCalls, probed, removeCalls, prev, rvars>>

\* remove_analysis(analysis, process_status, tracking_connector, force=False),
\* then the next iteration or the return
Remove ==
    /\ pc = "remove"
    /\ LET a == Head(todo) IN
          IF remove_analysis(process_status, FALSE)
          THEN /\ store' = store \ {a}
               /\ removeCalls' = [removeCalls EXCEPT ![a] = @ + 1]
          ELSE UNCHANGED <<store, removeCalls>>
    /\ todo' = Tail(todo)
    /\ pc' = IF Tail(todo) = << >> THEN "returned" ELSE "status"
    /\ UNCHANGED <<tracked, pass, process_status, restrict_to_seqruns, probeCalls, probed,
                   publishCalls, publishResult, error, prev, rvars>>

Next ==
    \/ BeginPass
    \/ ProbeReturns
    \/ ProbeRaises
    \/ Rebuild
    \/ PublishReturns
    \/ PublishRaises
    \/ Remove

Spec == Init /\ [][Next]_vars

\* ---------------------------------------------------------------- reconstruction runs
WIdle ==
    /\ tracked = [a \in Analyses |-> Analysis(SampleOf(a), 1, NoneId, TsvEmpty)]
    /\ store = {}
    /\ pass = 0
    /\ pc = "idle"
    /\ todo = << >>
    /\ process_status = "none"
    /\ restrict_to_seqruns = EmptyMap
    /\ probeCalls = NoCalls
    /\ probed = NotProbed
    /\ publishCalls = NoCalls
    /\ publishResult = NotProbed
    /\ removeCalls = [a \in Analyses |-> 0]
    /\ error = NoError
    /\ prev = NoPrev

InitR ==
    /\ WIdle
    /\ paths \in PathSeqs
    /\ perm = paths
    /\ project_obj = NoProject
    /\ perm_obj = NoProject
    /\ rpc = "start"

\* _project_from_fastq_file_paths(paths)
Reconstruct ==
    /\ rpc = "start"
    /\ project_obj' = _project_from_fastq_file_paths(Strs(paths))
    /\ rpc' = "built"
    /\ UNCHANGED <<paths, perm, perm_obj, wvars>>

\* the same paths in another order
Permute ==
    /\ rpc = "built"
    /\ \E f \in Bijections(Len(paths)) : perm' = Permuted(paths, f)
    /\ rpc' = "permuted"
    /\ UNCHANGED <<paths, project_obj, perm_obj, wvars>>

\* _project_from_fastq_file_paths(perm)
ReconstructPermuted ==
    /\ rpc = "permuted"
    /\ perm_obj' = _project_from_fastq_file_paths(Strs(perm))
    /\ rpc' = "done"
    /\ UNCHANGED <<paths, perm, project_obj, wvars>>

NextR ==
    \/ Reconstruct
    \/ Permute
    \/ ReconstructPermuted

SpecR == InitR /\ [][NextR]_vars

\* ================================================================ properties
Range(f) == { f[i] : i \in DOMAIN f }

\* the pass is over: it returned or an exception left it
PassOver == pass >= 1 /\ pc \in {"returned", "raised"}

\* the analyses tracked_analyses() listed in this pass
Listed == { a \in Analyses : a \in store \/ removeCalls[a] > 0 }

Current(a, at) == todo # << >> /\ Head(todo) = a /\ pc = at

\* the probe of a returned in this pass and the hierarchy of a was rebuilt
PastRebuild(a) == probed[a] # "none" /\ ~Current(a, "rebuild")

\* the sample names the TSV listing of a mentions
ListedSamples(a) == { << c.samp >> : c \in Range(tracked[a].fastq) }
OwnParts(a) == { c \in Range(tracked[a].fastq) : << c.samp >> = tracked[a].sample_id }
ExpectedLibpreps(a) == { << c.lib >> : c \in OwnParts(a) }
ExpectedSeqruns(a) ==
    [l \in ExpectedLibpreps(a) |-> { << c.run >> : c \in { d \in OwnParts(a) : << d.lib >> = l } }]

\* ---------------------------------------------------------------- C1
\* C1 (as stated): when a pass is over, every analysis whose probed status
\* is not ProcessRunning had remove_analysis called exactly once and every
\* analysis probed ProcessRunning had it called never.
C1_RemovedOnceUnlessRunning ==
    PassOver =>
        \A a \in Analyses :
            probed[a] # "none" =>
                removeCalls[a] = (IF probed[a] = ProcessRunning THEN 0 ELSE 1)

\* C1 (amended): remove_analysis is called exactly once for an analysis whose
\* probed status is not ProcessRunning and whose publish call returned, and
\* never for any other analysis; an analysis it was not called for is still
\* in the tracking database, one it was called for is not.
C1_RemovedOnceIffPublishedAndNotRunning ==
    \A a \in Analyses :
        /\ removeCalls[a] =
              (IF /\ probed[a] \notin {"none", ProcessRunning}
                  /\ publishResult[a] \in {"ok", "failed"}
                  /\ ~Current(a, "remove")
               THEN 1 ELSE 0)
        /\ (probed[a] # "none" /\ removeCalls[a] = 0) => a \in store
        /\ removeCalls[a] = 1 => a \notin store

C1_Witness ==
    /\ pc = "returned"
    /\ \E a, b \in Analyses :
          /\ probed[a] = ProcessExitStatusFailed /\ removeCalls[a] = 1 /\ a \notin store
          /\ probed[b] = ProcessRunning /\ publishResult[b] = "ok" /\ b \in store

\* ---------------------------------------------------------------- C2
\* C2: remove_analysis is called for an analysis only after its publish call
\* of the same pass completed successfully, and an analysis whose publish
\* call failed (raised or returned a failure) stays in the tracking database.
C2_RemoveOnlyAfterSuccessfulPublish ==
    \A a \in Analyses :
        /\ removeCalls[a] > 0 => publishResult[a] = "ok"
        /\ publishResult[a] \in {"failed", "raised"} => a \in store

\* ---------------------------------------------------------------- C3
\* C3: a failure while one analysis is processed does not end the pass: when
\* the pass is over every analysis tracked_analyses() listed has been probed.
C3_FailureDoesNotEndThePass ==
    PassOver => \A a \in Listed : probeCalls[a] # << >>

\* ---------------------------------------------------------------- C4
\* C4: after a pass that completed without failure the tracking database
\* holds exactly the analyses probed ProcessRunning; in the pass after it, as
\* long as the probed statuses are those of the pass before, the tracking
\* database is unchanged and every publish call repeats the call of the pass
\* before, and when that pass completes every analysis held was published.
Unchanged == \A a \in Analyses : probed[a] # "none" => probed[a] = prev.probed[a]

C4_RerunIsIdempotent ==
    /\ Clean => store = { a \in Analyses : probed[a] = ProcessRunning }
    /\ (prev.clean /\ Unchanged) =>
          /\ store = { a \in Analyses : prev.probed[a] = ProcessRunning }
          /\ \A a \in Analyses :
                /\ removeCalls[a] = 0
                /\ publishCalls[a] # << >> => publishCalls[a] = prev.calls[a]
          /\ Clean => \A a \in store : Len(publishCalls[a]) = 1

C4_Witness ==
    /\ prev.clean /\ Unchanged /\ Clean
    /\ store # {}
    /\ \E a \in Analyses : a \notin store
    /\ \A a \in store : publishCalls[a] = prev.calls[a] /\ Len(publishCalls[a]) = 1

\* ---------------------------------------------------------------- C5
\* C5: when the TSV listing of an analysis names fastq files but none of its
\* own sample, the iteration ends in the IndexError of the sample lookup:
\* no publish call is made for the analysis and it stays in the tracking
\* database.
NoMatchingSample(a) ==
    tracked[a].fastq # << >> /\ tracked[a].sample_id \notin ListedSamples(a)

C5_MissingSampleIsAnError ==
    \A a \in Analyses :
        (NoMatchingSample(a) /\ PastRebuild(a)) =>
            /\ publishCalls[a] = << >>
            /\ removeCalls[a] = 0
            /\ a \in store
            /\ Current(a, "raised")
            /\ error.kind = "IndexError"

C5_Witness ==
    \E a \in Analyses :
        /\ NoMatchingSample(a) /\ PastRebuild(a)
        /\ probed[a] = ProcessExitStatusSuccessful
        /\ Current(a, "raised")

\* ---------------------------------------------------------------- C6
\* C6: for an analysis whose TSV listing is empty the reconstruction
\* _project_from_fastq_file_paths signals the error itself, and the analysis
\* is neither published nor removed.
C6_EmptyInputIsSignalled ==
    \A a \in Analyses :
        (tracked[a].fastq = << >> /\ PastRebuild(a)) =>
            /\ error.site = "_project_from_fastq_file_paths"
            /\ publishCalls[a] = << >>
            /\ removeCalls[a] = 0

\* ---------------------------------------------------------------- C7
SameNameSets(o1, o2) ==
    /\ DOMAIN o1.samples = DOMAIN o2.samples
    /\ \A s \in DOMAIN o1.samples :
          /\ DOMAIN o1.samples[s] = DOMAIN o2.samples[s]
          /\ \A l \in DOMAIN o1.samples[s] :
                /\ DOMAIN o1.samples[s][l] = DOMAIN o2.samples[s][l]
                /\ \A r \in DOMAIN o1.samples[s][l] :
                      Range(o1.samples[s][l][r]) = Range(o2.samples[s][l][r])

SameProject(o1, o2) == o1.name = o2.name /\ o1.base_path = o2.base_path

\* C7 (as stated): for a non-empty path sequence and any permutation of it
\* the two hierarchies have the same project and the same sample, libprep
\* and seqrun name sets.
C7_OrderIndependent ==
    (rpc = "done" /\ paths # << >>) =>
        SameProject(project_obj, perm_obj) /\ SameNameSets(project_obj, perm_obj)

\* C7 (amended): for a non-empty path sequence and any permutation of it the
\* two hierarchies have the same sample names, the same libprep names under
\* each sample, the same seqrun names under each libprep and the same file
\* names under each seqrun; the project is the one of the first path of each
\* sequence, so it is the same when all paths lie in one project directory.
C7_NameSetsOrderIndependent ==
    (rpc = "done" /\ paths # << >>) =>
        /\ SameNameSets(project_obj, perm_obj)
        /\ project_obj.name = << paths[1].proj >>
        /\ perm_obj.name = << perm[1].proj >>
        /\ (\A i \in 1..Len(paths) : paths[i].dir = paths[1].dir /\ paths[i].proj = paths[1].proj)
              => SameProject(project_obj, perm_obj)

C7_Witness ==
    /\ rpc = "done"
    /\ perm # paths
    /\ project_obj # perm_obj
    /\ SameProject(project_obj, perm_obj)
    /\ Cardinality(DOMAIN project_obj.samples) = 2

\* ---------------------------------------------------------------- C8
\* the hierarchy holds the file of path parts c under c's seqrun, libprep
\* and sample
Holds(o, c) ==
    /\ << c.samp >> \in DOMAIN o.samples
    /\ << c.lib >> \in DOMAIN o.samples[<< c.samp >>]
    /\ << c.run >> \in DOMAIN o.samples[<< c.samp >>][<< c.lib >>]
    /\ << c.file >> \in Range(o.samples[<< c.samp >>][<< c.lib >>][<< c.run >>])

\* C8 (as stated): the project base path is the parent of the project
\* directory, so <base>/<project>/<sample>/<libprep>/<seqrun>/<file> yields
\* the project base path <base>.
C8_BasePathIsParentOfProject ==
    (rpc # "start" /\ paths # << >>) => project_obj.base_path = paths[1].dir

\* C8 (amended): the directory holding the file is the seqrun, its parent
\* the libprep, the next parent the sample, the next parent the project
\* directory name; the project base path is the parent of the parent of the
\* project directory, so <base>/<data>/<project>/<sample>/<libprep>/<seqrun>/<file>
\* yields the project base path <base>.
C8_BasePathIsGrandparentOfProject ==
    (rpc # "start" /\ paths # << >>) =>
        /\ \A i \in 1..Len(paths) : Holds(project_obj, paths[i])
        /\ project_obj.name = << paths[1].proj >>
        /\ project_obj.base_path = dirname(paths[1].dir)
        /\ paths[1].dir = BaseData => project_obj.base_path = << Slash, "base" >>

C8_Witness ==
    /\ rpc = "built"
    /\ Len(paths) = 2
    /\ paths[1].dir = BaseData
    /\ paths[2].samp # paths[1].samp
    /\ project_obj.base_path = << Slash, "base" >>

\* ---------------------------------------------------------------- C9
SampleFound(a) == tracked[a].sample_id \in ListedSamples(a) /\ PastRebuild(a)

\* C9: an analysis whose sample was found has exactly one publish call in the
\* pass, whatever its status, and every publish call carries the analysis's
\* project id and sample id, the translated status, recurse = TRUE, the
\* libprep names listed under the analysis's sample and nothing else, and for
\* each of them the seqrun names listed under it.
C9_PublishCallArguments ==
    \A a \in Analyses :
        /\ Len(publishCalls[a]) <= 1
        /\ (SampleFound(a) /\ ~Current(a, "publish")) => Len(publishCalls[a]) = 1
        /\ \A i \in 1..Len(publishCalls[a]) :
              publishCalls[a][i] =
                  [project_id |-> tracked[a].project_id,
                   sample_id |-> tracked[a].sample_id,
                   status |-> analysis_status_from_process_status(probed[a]),
                   recurse |-> TRUE,
                   restrict_to_libpreps |-> ExpectedLibpreps(a),
                   restrict_to_seqruns |-> ExpectedSeqruns(a)]

C9_Witness ==
    \E a \in Analyses :
        /\ probed[a] = ProcessRunning
        /\ Len(publishCalls[a]) = 1
        /\ ListedSamples(a) # {tracked[a].sample_id}
        /\ publishCalls[a][1].restrict_to_libpreps = {<< "L1" >>}
        /\ publishCalls[a][1].status = "UNDER_ANALYSIS"

\* ---------------------------------------------------------------- C10
\* C10: every probe is made with the class matching the identifier that is
\* set and is passed that identifier: ProcessStatus with process_id when
\* process_id is set, otherwise JobStatus with slurm_job_id.
C10_ProbeGetsTheSetIdentifier ==
    \A a \in Analyses :
        \A i \in 1..Len(probeCalls[a]) :
            IF tracked[a].process_id # NoneId
            THEN /\ probeCalls[a][i].status_type = "ProcessStatus"
                 /\ probeCalls[a][i].processid_or_jobid = tracked[a].process_id
            ELSE /\ probeCalls[a][i].status_type = "JobStatus"
                 /\ probeCalls[a][i].processid_or_jobid = tracked[a].slurm_job_id

====
